---- MODULE Spec2Model ----
(***************************************************************************)
(* Interface.py: the tap -> listen -> analyze session loop of the Frame    *)
(* heads-up display, its loading indicator task, and main()'s shutdown     *)
(* race, run by one asyncio event loop.                                    *)
(*                                                                         *)
(* The event loop is modelled as asyncio runs it: a FIFO queue of ready    *)
(* handles (ready), one handle executing at a time (cur), a task resumed   *)
(* with the result of the await it was suspended on (res).  A hardware     *)
(* call (display, microphone, motion, link) and a timer are awaits that    *)
(* the environment completes (IoDone).  asyncio.run's runner cancels every *)
(* task that is still alive once main() has finished (phase "shutdown").   *)
(***************************************************************************)
EXTENDS Integers, Sequences, FiniteSets, TLC

\* Bounds of the environment.
MaxTaps == 2
MaxSigint == 2
MaxFaults == 1
MaxRenders == 2
MaxCalls == 2

Tasks == {"main", "run", "stop", "load"}
TaskOrder == <<"main", "run", "stop", "load">>

VARIABLES
  phase,        \* "run": Runner.run(main()); "shutdown": Runner.close(); "exited"
  exitKind,     \* what ended Runner.run: "none", "exit", "error", "KeyboardInterrupt"
  unhandled,    \* an exception was reported as unhandled during runner shutdown
  toCancel,     \* the tasks the runner (or the harness) has cancelled
  ready,        \* the loop's FIFO of ready handles: task names and "sig"
  cur,          \* the handle executing synchronously, or "none"
  pc,           \* per task: the await it is suspended on
  res,          \* per task: what its await resumes with: "ok", "err", "cancel"
  exc,          \* per task: the exception in flight while its finally blocks run
  outcome,      \* per task: how it finished
  io,           \* tasks suspended on a hardware call or a timer
  inFlight,     \* tasks with a display render in flight
  issued,       \* kinds of hardware operation issued so far
  sigHandler,   \* SIGINT disposition: "none", "loop" (handle_interrupt), "default"
  stopEvent,    \* stop_event
  sigCount,     \* SIGINTs delivered
  sigAt,        \* where run() was when the first SIGINT was delivered
  handlerRuns,  \* executions of handle_interrupt
  stopSets,     \* unset -> set transitions of stop_event
  link,         \* Frame context: "none", "held", "released"
  frame,        \* Interface.frame: "None" or "attached"
  startFail,    \* "none", "model" (whisper.load_model raised), "connect"
  taps,         \* taps detected
  faults,       \* hardware calls that failed while the link was held
  devSleep,     \* sleep commands that reached the device over a held link
  dots,         \* write_loading's dots
  loadWipes,    \* cleanup renders issued by the current loading task
  loadCancelPc, \* where the loading task was suspended when its cancellation arrived
  loadRenders,  \* "Loading" renders issued by the current loading task
  sleepStarted, \* entries into Interface.sleep
  cancelPc,     \* where run() was suspended when its cancellation arrived
  failedStep,   \* "none", "capture", "preprocess", "transcribe"
  steps,        \* per step of the cycle, how many times it has happened so far
  boot,         \* the awaits run() has completed before its loop, in order
  screen,       \* what the display shows: the last render committed over a held link
  sleepTrail,   \* the awaits Interface.sleep has completed, in order
  sleepFailAt,  \* the await of Interface.sleep that raised, or "none"
  sleepFlag,    \* the deep_sleep argument of Interface.sleep: "none", "deep", "light"
  cmdFlag,      \* the deep_sleep argument passed to frame.sleep, or "none"
  detCalls,     \* session methods called on the Interface while its frame is None
  detLast       \* the last such call and how it ended

procVars == <<phase, exitKind, unhandled, toCancel>>
sigVars == <<sigHandler, stopEvent, sigCount, sigAt, handlerRuns, stopSets>>
linkVars == <<link, startFail, taps, faults, devSleep>>
loadVars == <<dots, loadWipes, loadCancelPc, loadRenders>>
runHist == <<exc, sleepStarted, cancelPc, failedStep>>
opVars == <<io, inFlight, issued>>
cycVars == <<steps, boot>>
sleepVars == <<sleepTrail, sleepFailAt, sleepFlag, cmdFlag>>
detVars == <<detCalls, detLast>>
histVars == <<steps, boot, screen, sleepTrail, sleepFailAt, sleepFlag, cmdFlag,
              detCalls, detLast>>
vars == <<phase, exitKind, unhandled, toCancel, ready, cur, pc, res, exc, outcome,
          io, inFlight, issued, sigHandler, stopEvent, sigCount, sigAt, handlerRuns,
          stopSets, link, frame, startFail, taps, faults, devSleep, dots,
          loadWipes, loadCancelPc, loadRenders, sleepStarted, cancelPc, failedStep,
          steps, boot, screen, sleepTrail, sleepFailAt, sleepFlag, cmdFlag,
          detCalls, detLast>>

----------------------------------------------------------------------------
\* Await points.

SplashPcs == {"sp_title", "sp_rect", "sp_sub", "sp_show"}
ListenPcs == {"li_write", "li_show", "record", "li_wipe"}
AnalyzeSyncPcs == {"an_create", "an_pre", "an_tr", "an_fin"}
AnalyzePcs == AnalyzeSyncPcs \cup {"an_await"}
SleepPcs == {"sl_write", "sl_show", "sl_settle", "sl_cmd"}
LoadingPcs == {"ld_show", "ld_delay", "ld_wipe"}
CyclePcs == ListenPcs \cup AnalyzePcs

DisplayPcs == {"sp_title", "sp_rect", "sp_sub", "sp_show", "sp_wipe", "li_write",
               "li_show", "li_wipe", "sl_write", "sl_show", "ld_show", "ld_wipe"}
TimerPcs == {"sp_dwell", "sl_settle", "ld_delay"}

OpOf(p) ==
  CASE p \in DisplayPcs -> "display"
    [] p = "tap" -> "tap"
    [] p = "record" -> "record"
    [] p = "sl_cmd" -> "sleepcmd"
    [] p \in {"connect", "aexit"} -> "link"
    [] OTHER -> "timer"

\* A run() whose loop starts with listen: the first cycle does not wait for a tap.
NextPcNoTap(p) ==
  CASE p = "start" -> "sp_title"
    [] p = "sp_title" -> "sp_rect"
    [] p = "sp_rect" -> "sp_sub"
    [] p = "sp_sub" -> "sp_show"
    [] p = "sp_show" -> "sp_dwell"
    [] p = "sp_dwell" -> "sp_wipe"
    [] p = "sp_wipe" -> "li_write"
    [] p = "tap" -> "li_write"
    [] p = "li_write" -> "li_show"
    [] p = "li_show" -> "record"
    [] p = "record" -> "li_wipe"
    [] p = "sl_write" -> "sl_show"
    [] p = "sl_show" -> "sl_settle"
    [] p = "sl_settle" -> "sl_cmd"
    [] OTHER -> "done"

\* A run() that wipes the splash as soon as it is committed: no dwell.
NextPcNoDwell(p) ==
  CASE p = "start" -> "sp_title"
    [] p = "sp_title" -> "sp_rect"
    [] p = "sp_rect" -> "sp_sub"
    [] p = "sp_sub" -> "sp_show"
    [] p = "sp_show" -> "sp_wipe"
    [] p = "sp_wipe" -> "tap"
    [] p = "tap" -> "li_write"
    [] p = "li_write" -> "li_show"
    [] p = "li_show" -> "record"
    [] p = "record" -> "li_wipe"
    [] p = "sl_write" -> "sl_show"
    [] p = "sl_show" -> "sl_settle"
    [] p = "sl_settle" -> "sl_cmd"
    [] OTHER -> "done"

\* The await that follows await p in straight-line code.
NextPc(p) ==
  CASE p = "start" -> "sp_title"
    [] p = "sp_title" -> "sp_rect"
    [] p = "sp_rect" -> "sp_sub"
    [] p = "sp_sub" -> "sp_show"
    [] p = "sp_show" -> "sp_dwell"
    [] p = "sp_dwell" -> "sp_wipe"
    [] p = "sp_wipe" -> "tap"
    [] p = "tap" -> "li_write"
    [] p = "li_write" -> "li_show"
    [] p = "li_show" -> "record"
    [] p = "record" -> "li_wipe"
    [] p = "sl_write" -> "sl_show"
    [] p = "sl_show" -> "sl_settle"
    [] p = "sl_settle" -> "sl_cmd"
    [] OTHER -> "done"

----------------------------------------------------------------------------
\* The event loop.

InSeq(t, q) == \E i \in 1..Len(q) : q[i] = t

Live == {t \in Tasks : pc[t] \notin {"none", "done"}}

\* The loop takes handle h from the head of the ready queue.
Dispatch(h) ==
  /\ phase # "exited"
  /\ cur = "none"
  /\ Len(ready) > 0
  /\ Head(ready) = h

\* The kind under which an operation issued over a released link is recorded.
LateOf(k) ==
  CASE k = "display" -> "late_display"
    [] k = "tap" -> "late_tap"
    [] k = "record" -> "late_record"
    [] k = "sleepcmd" -> "late_sleepcmd"
    [] OTHER -> "late_link"

\* Task t suspends on await p, having issued p's operation.
Await(t, p) ==
  /\ pc' = [pc EXCEPT ![t] = p]
  /\ io' = io \cup {t}
  /\ inFlight' = IF p \in DisplayPcs THEN inFlight \cup {t} ELSE inFlight
  /\ issued' = CASE p \in TimerPcs -> issued
                 [] p \notin TimerPcs /\ link = "released" ->
                      issued \cup {OpOf(p), LateOf(OpOf(p))}
                 [] OTHER -> issued \cup {OpOf(p)}

\* run() awaiting loading_task: Task.cancel() on it is passed on to loading_task.
WaitsOnLoader(t, q) == t = "run" /\ pc["run"] = "an_await" /\ ~InSeq("run", q)

\* Task.cancel() on every task of S: the task's await resumes with CancelledError.
CancelledRes(S, q) ==
  [t \in Tasks |-> IF t \in S /\ ~WaitsOnLoader(t, q) THEN "cancel" ELSE res[t]]

CancelledReady(S, q) ==
  q \o SelectSeq(TaskOrder, LAMBDA t : t \in S /\ ~InSeq(t, q) /\ ~WaitsOnLoader(t, q))

\* asyncio.wait(FIRST_COMPLETED) in main(): a finished task wakes main.
WakeMain(q) ==
  IF pc["main"] = "wait" /\ ~InSeq("main", q) THEN Append(q, "main") ELSE q

\* What the display shows once the render awaited at p has been committed.
Rendered(p) ==
  CASE p = "sp_show" -> "splash"
    [] p = "li_show" -> "listening"
    [] p = "ld_show" -> "loading"
    [] p = "sl_show" -> IF sleepFlag = "deep" THEN "sleep_deep" ELSE "sleep_light"
    [] p \in {"sp_wipe", "li_wipe", "ld_wipe"} -> "blank"
    [] OTHER -> screen

\* The environment completes the hardware call or timer task t is suspended on.
\* A call over a held link fails only as an injected fault; a call over a link
\* that is not held has no effect on the device and may raise or return.
IoDone(t, r) ==
  /\ phase # "exited"
  /\ cur = "none"
  /\ t \in io
  /\ (r = "err") => (pc[t] \notin TimerPcs /\ (link = "held" => faults < MaxFaults))
  /\ (r = "ok" /\ pc[t] = "tap") => (link = "held" /\ taps < MaxTaps)
  /\ io' = io \ {t}
  /\ inFlight' = inFlight \ {t}
  /\ res' = [res EXCEPT ![t] = r]
  /\ ready' = Append(ready, t)
  /\ faults' = IF r = "err" /\ link = "held" THEN faults + 1 ELSE faults
  /\ taps' = IF r = "ok" /\ pc[t] = "tap" THEN taps + 1 ELSE taps
  /\ link' = CASE pc[t] = "connect" /\ r = "ok" -> "held"
               [] pc[t] = "aexit" /\ r = "ok" -> "released"
               [] OTHER -> link
  /\ startFail' = IF pc[t] = "connect" /\ r = "err" THEN "connect" ELSE startFail
  /\ devSleep' = IF pc[t] = "sl_cmd" /\ r = "ok" /\ link = "held"
                 THEN devSleep + 1 ELSE devSleep
  /\ screen' = IF r = "ok" /\ link = "held" THEN Rendered(pc[t]) ELSE screen
  /\ UNCHANGED <<procVars, sigVars, loadVars, runHist, cur, pc, outcome, issued, frame,
                 cycVars, sleepVars, detVars>>

----------------------------------------------------------------------------
\* main() and asyncio.run.

Init ==
  /\ phase = "run"
  /\ exitKind = "none"
  /\ unhandled = FALSE
  /\ toCancel = {}
  /\ ready = <<"main">>
  /\ cur = "none"
  /\ pc = [t \in Tasks |-> IF t = "main" THEN "start" ELSE "none"]
  /\ res = [t \in Tasks |-> "ok"]
  /\ exc = [t \in Tasks |-> "none"]
  /\ outcome = [t \in Tasks |-> "none"]
  /\ io = {}
  /\ inFlight = {}
  /\ issued = {}
  /\ sigHandler = "none"
  /\ stopEvent = FALSE
  /\ sigCount = 0
  /\ sigAt = "none"
  /\ handlerRuns = 0
  /\ stopSets = 0
  /\ link = "none"
  /\ frame = "None"
  /\ startFail = "none"
  /\ taps = 0
  /\ faults = 0
  /\ devSleep = 0
  /\ dots = 0
  /\ loadWipes = 0
  /\ loadCancelPc = "none"
  /\ loadRenders = 0
  /\ sleepStarted = 0
  /\ cancelPc = "none"
  /\ failedStep = "none"
  /\ steps = [capture |-> 0, captured |-> 0, preprocessed |-> 0, transcribed |-> 0]
  /\ boot = <<>>
  /\ screen = "blank"
  /\ sleepTrail = <<>>
  /\ sleepFailAt = "none"
  /\ sleepFlag = "none"
  /\ cmdFlag = "none"
  /\ detCalls = 0
  /\ detLast = [op |-> "none", result |-> "none"]

\* main() finishes with outcome o.  While Runner.run is running this ends it and
\* Runner.close cancels every task still alive; during Runner.close a SystemExit
\* leaving main() leaves the loop at once.
MainDone(o) ==
  /\ pc' = [pc EXCEPT !["main"] = "done"]
  /\ outcome' = [outcome EXCEPT !["main"] = o]
  /\ IF phase = "run"
     THEN LET S == Live \ {"main"}
              q == Tail(ready)
          IN /\ phase' = "shutdown"
             /\ exitKind' = IF o = "exit" THEN "exit" ELSE "error"
             /\ toCancel' = S
             /\ res' = CancelledRes(S, q)
             /\ ready' = CancelledReady(S, q)
             /\ io' = io \ S
             /\ inFlight' = inFlight \ S
     ELSE /\ phase' = IF o = "exit" THEN "exited" ELSE phase
          /\ exitKind' = IF o = "exit" THEN "exit" ELSE exitKind
          /\ ready' = Tail(ready)
          /\ UNCHANGED <<toCancel, res, io, inFlight>>
  /\ UNCHANGED <<unhandled, cur, issued>>

\* main(), lines 133-145: Interface(None) loads the model, handle_interrupt is
\* installed, and Frame() is entered.
main_startup ==
  /\ Dispatch("main")
  /\ pc["main"] = "start"
  /\ \E loaded \in BOOLEAN :
       IF loaded
       THEN /\ sigHandler' = "loop"
            /\ Await("main", "connect")
            /\ ready' = Tail(ready)
            /\ UNCHANGED <<procVars, res, outcome, cur, startFail>>
       ELSE /\ startFail' = "model"
            /\ MainDone("err")
            /\ UNCHANGED sigHandler
  /\ UNCHANGED <<histVars, stopEvent, sigCount, sigAt, handlerRuns, stopSets, link, frame, taps,
                 faults, devSleep, loadVars, runHist>>

\* The connection attempt has ended and main() goes on: set_frame, the two tasks.
main_attach_ok ==
  /\ frame' = "attached"
  /\ pc' = [pc EXCEPT !["main"] = "wait", !["run"] = "start", !["stop"] = "start"]
  /\ res' = [res EXCEPT !["run"] = "ok", !["stop"] = "ok"]
  /\ ready' = Tail(ready) \o <<"run", "stop">>
  /\ UNCHANGED <<procVars, outcome, cur, opVars>>

main_attach_always ==
  /\ Dispatch("main")
  /\ pc["main"] = "connect"
  /\ IF res["main"] = "cancel"
     THEN MainDone("cancel") /\ UNCHANGED frame
     ELSE main_attach_ok
  /\ UNCHANGED <<histVars, sigVars, linkVars, loadVars, runHist>>

\* main(), lines 145-155: Frame().__aenter__ returns or raises.
main_attach ==
  /\ Dispatch("main")
  /\ pc["main"] = "connect"
  /\ IF res["main"] = "ok"
     THEN main_attach_ok
     ELSE MainDone(res["main"]) /\ UNCHANGED frame
  /\ UNCHANGED <<histVars, sigVars, linkVars, loadVars, runHist>>

\* main(), lines 152-157: asyncio.wait returns (or is cancelled), exit(0) raises
\* SystemExit, which leaves the Frame context through __aexit__.
main_finally ==
  /\ Dispatch("main")
  /\ pc["main"] = "wait"
  /\ Await("main", "aexit")
  /\ ready' = Tail(ready)
  /\ UNCHANGED <<histVars, procVars, sigVars, linkVars, loadVars, runHist, res, outcome, cur, frame>>

\* Frame().__aexit__ has ended; SystemExit (or what replaced it) leaves main().
main_exit ==
  /\ Dispatch("main")
  /\ pc["main"] = "aexit"
  /\ MainDone(IF res["main"] = "ok" THEN "exit" ELSE res["main"])
  /\ UNCHANGED <<histVars, sigVars, linkVars, loadVars, runHist, frame>>

\* stop_task: stop_event.wait().
stop_wait ==
  /\ Dispatch("stop")
  /\ IF res["stop"] = "cancel" \/ stopEvent
     THEN /\ pc' = [pc EXCEPT !["stop"] = "done"]
          /\ outcome' = [outcome EXCEPT !["stop"] =
                           IF res["stop"] = "cancel" THEN "cancel" ELSE "ok"]
          /\ ready' = WakeMain(Tail(ready))
     ELSE /\ pc' = [pc EXCEPT !["stop"] = "ev_wait"]
          /\ ready' = Tail(ready)
          /\ UNCHANGED outcome
  /\ UNCHANGED <<histVars, procVars, sigVars, linkVars, loadVars, runHist, res, cur, opVars, frame>>

\* SIGINT while handle_interrupt is installed: the loop queues the handler.
Sigint ==
  /\ phase # "exited"
  /\ sigHandler = "loop"
  /\ sigCount < MaxSigint
  /\ sigCount' = sigCount + 1
  /\ sigAt' = IF sigCount = 0 THEN pc["run"] ELSE sigAt
  /\ ready' = Append(ready, "sig")
  /\ UNCHANGED <<histVars, procVars, linkVars, loadVars, runHist, cur, pc, res, outcome, opVars,
                 frame, sigHandler, stopEvent, handlerRuns, stopSets>>

\* A handler that toggles stop_event: a second run clears it.
handle_interrupt_toggle ==
  /\ Dispatch("sig")
  /\ sigHandler' = "default"
  /\ handlerRuns' = handlerRuns + 1
  /\ stopEvent' = ~stopEvent
  /\ stopSets' = IF stopEvent THEN stopSets ELSE stopSets + 1
  /\ ready' = IF pc["stop"] = "ev_wait" /\ ~InSeq("stop", Tail(ready))
              THEN Append(Tail(ready), "stop") ELSE Tail(ready)
  /\ UNCHANGED <<histVars, procVars, linkVars, loadVars, runHist, cur, pc, res, outcome,
                 opVars, frame, sigCount, sigAt>>

\* handle_interrupt, lines 138-141.
handle_interrupt ==
  /\ Dispatch("sig")
  /\ sigHandler' = "default"
  /\ handlerRuns' = handlerRuns + 1
  /\ stopEvent' = TRUE
  /\ stopSets' = IF stopEvent THEN stopSets ELSE stopSets + 1
  /\ ready' = IF pc["stop"] = "ev_wait" /\ ~InSeq("stop", Tail(ready))
              THEN Append(Tail(ready), "stop") ELSE Tail(ready)
  /\ UNCHANGED <<histVars, procVars, linkVars, loadVars, runHist, cur, pc, res, outcome, opVars,
                 frame, sigCount, sigAt>>

\* SIGINT after remove_signal_handler (line 139) has restored Python's default
\* handler: KeyboardInterrupt is raised in the loop.  Runner.run ends and
\* Runner.close cancels every task; raised during Runner.close it ends the process.
KeyboardInterrupt ==
  /\ phase # "exited"
  /\ cur = "none"
  /\ sigHandler = "default"
  /\ sigCount < MaxSigint
  /\ sigCount' = sigCount + 1
  /\ exitKind' = "KeyboardInterrupt"
  /\ IF phase = "run"
     THEN /\ phase' = "shutdown"
          /\ toCancel' = Live
          /\ res' = CancelledRes(Live, ready)
          /\ ready' = CancelledReady(Live, ready)
          /\ io' = io \ Live
          /\ inFlight' = inFlight \ Live
     ELSE /\ phase' = "exited"
          /\ UNCHANGED <<toCancel, res, ready, io, inFlight>>
  /\ UNCHANGED <<histVars, unhandled, linkVars, loadVars, runHist, cur, pc, outcome, issued,
                 frame, sigHandler, stopEvent, sigAt, handlerRuns, stopSets>>

\* KeyboardInterrupt leaves a task step (Task.__step re-raises it): Runner.run
\* ends and Runner.close cancels the tasks still alive; during Runner.close it
\* ends the process.  q is the ready queue without the step's handle.
LoopInterrupted(q) ==
  /\ exitKind' = "KeyboardInterrupt"
  /\ IF phase = "run"
     THEN LET S == Live \ {"run"}
          IN /\ phase' = "shutdown"
             /\ toCancel' = S
             /\ res' = CancelledRes(S, q)
             /\ ready' = CancelledReady(S, q)
             /\ io' = io \ S
             /\ inFlight' = inFlight \ S
     ELSE /\ phase' = "exited"
          /\ ready' = q
          /\ UNCHANGED <<toCancel, res, io, inFlight>>
  /\ UNCHANGED unhandled

\* SIGINT after remove_signal_handler (line 139) while run() is inside analyze's
\* synchronous calls (lines 111-112): Python's default handler raises
\* KeyboardInterrupt inside preprocess_audio or whisper.transcribe, and the
\* exception unwinds into analyze's finally.
KeyboardInterruptInTask ==
  /\ phase # "exited"
  /\ cur = "run"
  /\ pc["run"] \in {"an_pre", "an_tr"}
  /\ sigHandler = "default"
  /\ sigCount < MaxSigint
  /\ sigCount' = sigCount + 1
  /\ exc' = [exc EXCEPT !["run"] = "KeyboardInterrupt"]
  /\ pc' = [pc EXCEPT !["run"] = "an_fin"]
  /\ UNCHANGED <<procVars, linkVars, loadVars, ready, cur, res, outcome, opVars, frame,
                 sigHandler, stopEvent, sigAt, handlerRuns, stopSets, sleepStarted,
                 cancelPc, failedStep, histVars>>

\* Runner.close: every cancelled task has finished; the process exits.
RunnerClose ==
  /\ phase = "shutdown"
  /\ cur = "none"
  /\ \A t \in toCancel : pc[t] = "done"
  /\ phase' = "exited"
  /\ unhandled' = \E t \in toCancel : outcome[t] = "err"
  /\ UNCHANGED <<histVars, exitKind, toCancel, ready, cur, pc, res, exc, outcome, opVars,
                 sigVars, linkVars, frame, loadVars, sleepStarted, cancelPc, failedStep>>

----------------------------------------------------------------------------
\* Interface.run and the methods it awaits.

\* run(), lines 128-129: an exception of kind k leaves the try block and the
\* finally clause enters sleep(deep_sleep=True), whose first await is write_text.
RunFinally(k) ==
  /\ exc' = [exc EXCEPT !["run"] = k]
  /\ sleepStarted' = sleepStarted + 1
  /\ sleepFlag' = "deep"
  /\ sleepTrail' = <<>>
  /\ UNCHANGED <<sleepFailAt, cmdFlag>>
  /\ Await("run", "sl_write")
  /\ ready' = Tail(ready)
  /\ UNCHANGED <<res, outcome, cur>>

\* An except clause at the cycle boundary that swallows a failed capture.
RunRaiseCaught ==
  /\ cancelPc' = IF res["run"] = "cancel" THEN pc["run"] ELSE cancelPc
  /\ failedStep' = IF res["run"] = "err" /\ pc["run"] = "record"
                   THEN "capture" ELSE failedStep
  /\ IF res["run"] = "err" /\ pc["run"] \in CyclePcs
     THEN /\ Await("run", "tap")
          /\ ready' = Tail(ready)
          /\ UNCHANGED <<exc, sleepStarted, res, outcome, cur, sleepVars>>
     ELSE RunFinally(res["run"])

\* A run() shielded from cancellation until its cycle is over.
RunRaiseShielded ==
  /\ cancelPc' = IF res["run"] = "cancel" THEN pc["run"] ELSE cancelPc
  /\ failedStep' = IF res["run"] = "err" /\ pc["run"] = "record"
                   THEN "capture" ELSE failedStep
  /\ IF res["run"] = "cancel" /\ pc["run"] \in CyclePcs
     THEN /\ Await("run", "tap")
          /\ ready' = Tail(ready)
          /\ UNCHANGED <<exc, sleepStarted, res, outcome, cur, sleepVars>>
     ELSE RunFinally(res["run"])

\* An await inside run()'s try block (lines 120-127) raises: a hardware error or
\* the CancelledError of Task.cancel().  Nothing catches it before the finally.
RunRaise ==
  /\ cancelPc' = IF res["run"] = "cancel" THEN pc["run"] ELSE cancelPc
  /\ failedStep' = IF res["run"] = "err" /\ pc["run"] = "record"
                   THEN "capture" ELSE failedStep
  /\ RunFinally(res["run"])

\* run() resumes at an await of its try block: on to the next await, or raise.
RunTry ==
  IF res["run"] = "ok"
  THEN /\ Await("run", NextPc(pc["run"]))
       /\ ready' = Tail(ready)
       /\ steps' = CASE NextPc(pc["run"]) = "record" ->
                          [steps EXCEPT !.capture = steps.capture + 1]
                     [] pc["run"] = "record" ->
                          [steps EXCEPT !.captured = steps.captured + 1]
                     [] OTHER -> steps
       /\ boot' = IF pc["run"] \in SplashPcs \cup {"sp_dwell", "sp_wipe"}
                  THEN Append(boot, pc["run"]) ELSE boot
       /\ UNCHANGED <<runHist, res, outcome, cur, sleepVars>>
  ELSE RunRaise /\ UNCHANGED cycVars

\* run_task's first step.  A task cancelled before its first step never runs its
\* coroutine: no try block is entered and no finally clause runs.
run_start ==
  /\ Dispatch("run")
  /\ pc["run"] = "start"
  /\ IF res["run"] = "cancel"
     THEN /\ pc' = [pc EXCEPT !["run"] = "done"]
          /\ outcome' = [outcome EXCEPT !["run"] = "cancel"]
          /\ ready' = WakeMain(Tail(ready))
          /\ UNCHANGED <<runHist, res, cur, opVars, cycVars, sleepVars>>
     ELSE RunTry
  /\ UNCHANGED <<screen, detVars, procVars, sigVars, linkVars, loadVars, frame>>

\* write_splash, lines 55-67: title, rectangle, subtitle, update_display.
write_splash ==
  /\ Dispatch("run")
  /\ pc["run"] \in SplashPcs
  /\ RunTry
  /\ UNCHANGED <<screen, detVars, procVars, sigVars, linkVars, loadVars, frame>>

\* run(), lines 122-123: the dwell and wipe_display.
run_dwell ==
  /\ Dispatch("run")
  /\ pc["run"] \in {"sp_dwell", "sp_wipe"}
  /\ RunTry
  /\ UNCHANGED <<screen, detVars, procVars, sigVars, linkVars, loadVars, frame>>

\* wait_for_tap, lines 46-47 and 125: the tap wait returns (or raises).
wait_for_tap ==
  /\ Dispatch("run")
  /\ pc["run"] = "tap"
  /\ RunTry
  /\ UNCHANGED <<screen, detVars, procVars, sigVars, linkVars, loadVars, frame>>

\* listen, lines 89-98: prompt, update_display, record_audio, wipe_display; its
\* return enters analyze, which runs without suspending up to its finally.
listen ==
  /\ Dispatch("run")
  /\ pc["run"] \in ListenPcs
  /\ IF pc["run"] = "li_wipe" /\ res["run"] = "ok"
     THEN /\ pc' = [pc EXCEPT !["run"] = "an_create"]
          /\ cur' = "run"
          /\ ready' = Tail(ready)
          /\ UNCHANGED <<runHist, res, outcome, opVars, cycVars, sleepVars>>
     ELSE RunTry
  /\ UNCHANGED <<screen, detVars, procVars, sigVars, linkVars, loadVars, frame>>

\* analyze, line 108: asyncio.create_task(self.write_loading()).
create_task ==
  /\ phase # "exited"
  /\ cur = "run"
  /\ pc["run"] = "an_create"
  /\ pc' = [pc EXCEPT !["run"] = "an_pre", !["load"] = "start"]
  /\ res' = [res EXCEPT !["load"] = "ok"]
  /\ outcome' = [outcome EXCEPT !["load"] = "none"]
  /\ ready' = IF InSeq("load", ready) THEN ready ELSE Append(ready, "load")
  /\ io' = io \ {"load"}
  /\ inFlight' = inFlight \ {"load"}
  /\ loadWipes' = 0
  /\ loadRenders' = 0
  /\ loadCancelPc' = "none"
  /\ UNCHANGED <<histVars, procVars, sigVars, linkVars, runHist, cur, issued, frame, dots>>

\* analyze, line 111: preprocess_audio returns or raises.
preprocess_audio ==
  /\ phase # "exited"
  /\ cur = "run"
  /\ pc["run"] = "an_pre"
  /\ \E ok \in BOOLEAN :
       /\ pc' = [pc EXCEPT !["run"] = IF ok THEN "an_tr" ELSE "an_fin"]
       /\ exc' = [exc EXCEPT !["run"] = IF ok THEN "none" ELSE "err"]
       /\ failedStep' = IF ok THEN failedStep ELSE "preprocess"
       /\ steps' = IF ok THEN [steps EXCEPT !.preprocessed = steps.preprocessed + 1]
                   ELSE steps
  /\ UNCHANGED <<procVars, sigVars, linkVars, loadVars, ready, cur, res, outcome,
                 opVars, frame, sleepStarted, cancelPc, boot, screen, sleepVars,
                 detVars>>

\* analyze, lines 112-113: whisper.transcribe returns or raises.
transcribe ==
  /\ phase # "exited"
  /\ cur = "run"
  /\ pc["run"] = "an_tr"
  /\ \E ok \in BOOLEAN :
       /\ exc' = [exc EXCEPT !["run"] = IF ok THEN "none" ELSE "err"]
       /\ failedStep' = IF ok THEN failedStep ELSE "transcribe"
       /\ steps' = IF ok THEN [steps EXCEPT !.transcribed = steps.transcribed + 1]
                   ELSE steps
  /\ pc' = [pc EXCEPT !["run"] = "an_fin"]
  /\ UNCHANGED <<procVars, sigVars, linkVars, loadVars, ready, cur, res, outcome,
                 opVars, frame, sleepStarted, cancelPc, boot, screen, sleepVars,
                 detVars>>

\* analyze returns to run() as soon as its try block is left: no cancel, no await.
analyze_finally_nojoin ==
  /\ phase # "exited"
  /\ cur = "run"
  /\ pc["run"] = "an_fin"
  /\ cur' = "none"
  /\ IF exc["run"] = "none"
     THEN /\ Await("run", "tap")
          /\ UNCHANGED sleepStarted
     ELSE /\ sleepStarted' = sleepStarted + 1
          /\ Await("run", "sl_write")
  /\ UNCHANGED <<histVars, procVars, sigVars, linkVars, loadVars, ready, res, outcome, frame,
                 exc, cancelPc, failedStep>>

\* analyze, lines 114-117: loading_task.cancel(), then run() suspends on
\* await loading_task.
analyze_finally ==
  /\ phase # "exited"
  /\ cur = "run"
  /\ pc["run"] = "an_fin"
  /\ cur' = "none"
  /\ pc' = [pc EXCEPT !["run"] = "an_await"]
  /\ IF pc["load"] = "done"
     THEN /\ ready' = Append(ready, "run")
          /\ res' = [res EXCEPT !["run"] = outcome["load"]]
          /\ UNCHANGED <<io, inFlight>>
     ELSE /\ res' = CancelledRes({"load"}, ready)
          /\ ready' = CancelledReady({"load"}, ready)
          /\ io' = io \ {"load"}
          /\ inFlight' = inFlight \ {"load"}
  /\ UNCHANGED <<histVars, procVars, sigVars, linkVars, loadVars, runHist, outcome, issued, frame>>

\* analyze, lines 116-117 and run(), line 124: await loading_task has ended.
\* suppress(CancelledError) swallows a CancelledError raised at that await; an
\* exception of the try block, or of loading_task, goes on to run()'s finally.
analyze_join ==
  /\ Dispatch("run")
  /\ pc["run"] = "an_await"
  /\ LET e == IF res["run"] = "err" THEN "err" ELSE exc["run"]
     IN IF e = "none"
        THEN /\ Await("run", "tap")
             /\ ready' = Tail(ready)
             /\ UNCHANGED <<exc, sleepStarted, res, outcome, cur, sleepVars>>
        ELSE RunFinally(e)
  /\ UNCHANGED <<procVars, sigVars, linkVars, loadVars, frame, cancelPc, failedStep,
                 cycVars, screen, detVars>>

\* A sleep that calls frame.sleep() without its argument: the default, light.
sleep_defaultflag ==
  /\ Dispatch("run")
  /\ pc["run"] \in SleepPcs
  /\ IF res["run"] = "ok" /\ pc["run"] # "sl_cmd"
     THEN /\ Await("run", NextPc(pc["run"]))
          /\ ready' = Tail(ready)
          /\ sleepTrail' = Append(sleepTrail, pc["run"])
          /\ cmdFlag' = IF NextPc(pc["run"]) = "sl_cmd" THEN "light" ELSE cmdFlag
          /\ UNCHANGED <<outcome, sleepFailAt>>
     ELSE /\ pc' = [pc EXCEPT !["run"] = "done"]
          /\ outcome' = [outcome EXCEPT !["run"] =
                           IF res["run"] = "ok" THEN exc["run"] ELSE res["run"]]
          /\ sleepTrail' = IF res["run"] = "ok"
                           THEN Append(sleepTrail, pc["run"]) ELSE sleepTrail
          /\ sleepFailAt' = IF res["run"] = "err" THEN pc["run"] ELSE sleepFailAt
          /\ ready' = WakeMain(Tail(ready))
          /\ UNCHANGED <<opVars, cmdFlag>>
  /\ UNCHANGED <<procVars, res, sigVars, linkVars, loadVars, runHist, cur, frame,
                 sleepFlag, cycVars, screen, detVars>>

\* A sleep that never gives up on a failed render or command: it stays suspended.
sleep_hang ==
  /\ Dispatch("run")
  /\ pc["run"] \in SleepPcs
  /\ IF res["run"] = "ok" /\ pc["run"] # "sl_cmd"
     THEN /\ Await("run", NextPc(pc["run"]))
          /\ ready' = Tail(ready)
          /\ sleepTrail' = Append(sleepTrail, pc["run"])
          /\ cmdFlag' = IF NextPc(pc["run"]) = "sl_cmd" THEN sleepFlag ELSE cmdFlag
          /\ UNCHANGED <<outcome, sleepFailAt>>
     ELSE IF res["run"] = "err"
     THEN /\ sleepFailAt' = pc["run"]
          /\ ready' = Tail(ready)
          /\ UNCHANGED <<pc, outcome, opVars, sleepTrail, cmdFlag>>
     ELSE /\ pc' = [pc EXCEPT !["run"] = "done"]
          /\ outcome' = [outcome EXCEPT !["run"] =
                           IF res["run"] = "ok" THEN exc["run"] ELSE res["run"]]
          /\ ready' = WakeMain(Tail(ready))
          /\ UNCHANGED <<opVars, sleepTrail, sleepFailAt, cmdFlag>>
  /\ UNCHANGED <<procVars, res, sigVars, linkVars, loadVars, runHist, cur, frame,
                 sleepFlag, cycVars, screen, detVars>>

\* sleep, lines 36-41: write_text, update_display, asyncio.sleep(2), frame.sleep.
\* It runs inside run()'s finally: when it ends the exception in flight leaves
\* run(); when one of its awaits raises, that exception leaves run() instead.
sleep ==
  /\ Dispatch("run")
  /\ pc["run"] \in SleepPcs
  /\ IF res["run"] = "ok" /\ pc["run"] # "sl_cmd"
     THEN /\ Await("run", NextPc(pc["run"]))
          /\ ready' = Tail(ready)
          /\ sleepTrail' = Append(sleepTrail, pc["run"])
          /\ cmdFlag' = IF NextPc(pc["run"]) = "sl_cmd" THEN sleepFlag ELSE cmdFlag
          /\ UNCHANGED <<procVars, res, outcome, sleepFailAt>>
     ELSE LET o == IF res["run"] = "ok" THEN exc["run"] ELSE res["run"]
          IN /\ pc' = [pc EXCEPT !["run"] = "done"]
             /\ outcome' = [outcome EXCEPT !["run"] = o]
             /\ sleepTrail' = IF res["run"] = "ok"
                              THEN Append(sleepTrail, pc["run"]) ELSE sleepTrail
             /\ sleepFailAt' = IF res["run"] = "err" THEN pc["run"] ELSE sleepFailAt
             /\ IF o = "KeyboardInterrupt"
                THEN LoopInterrupted(Tail(ready))
                ELSE /\ ready' = WakeMain(Tail(ready))
                     /\ UNCHANGED <<procVars, res, io, inFlight>>
             /\ UNCHANGED <<issued, cmdFlag>>
  /\ UNCHANGED <<sigVars, linkVars, loadVars, runHist, cur, frame, sleepFlag, cycVars,
                 screen, detVars>>

----------------------------------------------------------------------------
\* Interface.write_loading, the loading indicator task.

\* loading_task finishes with outcome o and wakes run() if it awaits the task.
LoadingDone(o) ==
  /\ pc' = [pc EXCEPT !["load"] = "done"]
  /\ outcome' = [outcome EXCEPT !["load"] = o]
  /\ IF WaitsOnLoader("run", Tail(ready))
     THEN /\ ready' = Append(Tail(ready), "run")
          /\ res' = [res EXCEPT !["run"] = o]
     ELSE /\ ready' = Tail(ready)
          /\ UNCHANGED res
  /\ UNCHANGED opVars

\* A write_loading without its except clause: the CancelledError leaves the task.
LoadingExceptMissing ==
  /\ loadCancelPc' = pc["load"]
  /\ LoadingDone("cancel")
  /\ UNCHANGED <<dots, loadWipes, loadRenders>>

\* write_loading, lines 86-87: CancelledError raised at an await of the try
\* block is caught and wipe_display is awaited.
LoadingExcept ==
  /\ loadCancelPc' = pc["load"]
  /\ loadWipes' = loadWipes + 1
  /\ Await("load", "ld_wipe")
  /\ ready' = Tail(ready)
  /\ UNCHANGED <<dots, loadRenders, res, outcome>>

\* write_loading, lines 77-87, one step of the task.  A task cancelled before its
\* first step never enters the try block.
write_loading ==
  /\ Dispatch("load")
  /\ CASE pc["load"] = "start" /\ res["load"] = "cancel" ->
            /\ LoadingDone("cancel")
            /\ UNCHANGED loadVars
       [] pc["load"] = "start" /\ res["load"] # "cancel" ->
            /\ dots' = 0
            /\ loadRenders' = loadRenders + 1
            /\ Await("load", "ld_show")
            /\ ready' = Tail(ready)
            /\ UNCHANGED <<loadWipes, loadCancelPc, res, outcome>>
       [] pc["load"] \in {"ld_show", "ld_delay"} /\ res["load"] = "cancel" ->
            LoadingExcept
       [] pc["load"] = "ld_show" /\ res["load"] = "ok" ->
            /\ dots' = IF dots < 3 THEN dots + 1 ELSE 0
            /\ Await("load", "ld_delay")
            /\ ready' = Tail(ready)
            /\ UNCHANGED <<loadWipes, loadCancelPc, loadRenders, res, outcome>>
       [] pc["load"] = "ld_delay" /\ res["load"] = "ok" ->
            /\ loadRenders' = IF loadRenders < MaxRenders THEN loadRenders + 1 ELSE loadRenders
            /\ Await("load", "ld_show")
            /\ ready' = Tail(ready)
            /\ UNCHANGED <<dots, loadWipes, loadCancelPc, res, outcome>>
       [] OTHER ->
            /\ LoadingDone(IF pc["load"] = "ld_wipe" /\ res["load"] = "ok"
                           THEN "ok" ELSE res["load"])
            /\ UNCHANGED loadVars
  /\ UNCHANGED <<histVars, procVars, sigVars, linkVars, runHist, cur, frame>>

----------------------------------------------------------------------------
Next ==
  \/ main_startup
  \/ main_attach
  \/ main_finally
  \/ main_exit
  \/ stop_wait
  \/ Sigint
  \/ handle_interrupt
  \/ KeyboardInterrupt
  \/ KeyboardInterruptInTask
  \/ RunnerClose
  \/ run_start
  \/ write_splash
  \/ run_dwell
  \/ wait_for_tap
  \/ listen
  \/ create_task
  \/ preprocess_audio
  \/ transcribe
  \/ analyze_finally
  \/ analyze_join
  \/ sleep
  \/ write_loading
  \/ \E t \in Tasks, r \in {"ok", "err"} : IoDone(t, r)

Spec == Init /\ [][Next]_vars

\* The steps the event loop and the hardware take on their own: every action
\* but the arrival of a SIGINT.
Progress ==
  \/ main_startup
  \/ main_attach
  \/ main_finally
  \/ main_exit
  \/ stop_wait
  \/ handle_interrupt
  \/ RunnerClose
  \/ run_start
  \/ write_splash
  \/ run_dwell
  \/ wait_for_tap
  \/ listen
  \/ create_task
  \/ preprocess_audio
  \/ transcribe
  \/ analyze_finally
  \/ analyze_join
  \/ sleep
  \/ write_loading
  \/ \E t \in Tasks, r \in {"ok", "err"} : IoDone(t, r)

\* The loop runs a ready handle whenever there is one, and a hardware call or
\* a timer that is awaited ends by returning or raising.
SpecFair == Spec /\ WF_vars(Progress)

----------------------------------------------------------------------------
\* The session before a device is attached: Interface(None) has been constructed
\* (line 134) and main() is still inside Frame().__aenter__; a caller invokes
\* session methods on the Interface, then main() goes on as usual.

SessionOps == {"get_battery_level", "break_script", "sleep", "on_tap", "wait_for_tap",
               "update_display", "wipe_display", "write_splash", "write_title",
               "write_content", "write_loading", "listen", "set_frame"}

\* The attribute of the Interface a method dereferences first.
Deref(op) ==
  IF op \in {"get_battery_level", "break_script", "on_tap", "wait_for_tap"}
  THEN "frame" ELSE "display"

\* An Interface whose display is usable before any device is attached.
AttrValueEager(a) ==
  IF a = "display" \/ frame # "None" THEN "set" ELSE "None"

\* __init__ and set_frame, lines 18-28: frame and display are None together.
AttrValue(a) ==
  IF frame = "None" THEN "None" ELSE "set"

\* The hardware a method reaches with its first operation.
HardwareOf(op) ==
  CASE op \in {"on_tap", "wait_for_tap"} -> "tap"
    [] op \in {"get_battery_level", "break_script"} -> "device"
    [] OTHER -> "display"

\* How a call ends at once: set_frame(None) does nothing, a method whose
\* attribute is None raises AttributeError, any other issues its operation.
CallResult(op) ==
  CASE op = "set_frame" -> "noop"
    [] op # "set_frame" /\ AttrValue(Deref(op)) = "None" -> "raise"
    [] OTHER -> "issued"

detached_call(op) ==
  /\ phase = "run"
  /\ cur = "none"
  /\ pc["main"] = "connect"
  /\ detCalls < MaxCalls
  /\ detCalls' = detCalls + 1
  /\ detLast' = [op |-> op, result |-> CallResult(op)]
  /\ issued' = IF CallResult(op) = "issued" THEN issued \cup {HardwareOf(op)} ELSE issued
  /\ UNCHANGED <<procVars, sigVars, linkVars, loadVars, runHist, ready, cur, pc, res,
                 outcome, io, inFlight, frame, cycVars, screen, sleepVars>>

NextDetached ==
  \/ \E op \in SessionOps : detached_call(op)
  \/ main_startup
  \/ main_attach
  \/ main_finally
  \/ main_exit
  \/ stop_wait
  \/ RunnerClose
  \/ run_start
  \/ write_splash
  \/ run_dwell
  \/ wait_for_tap
  \/ listen
  \/ create_task
  \/ preprocess_audio
  \/ transcribe
  \/ analyze_finally
  \/ analyze_join
  \/ sleep
  \/ write_loading
  \/ \E t \in Tasks, r \in {"ok", "err"} : IoDone(t, r)

SpecDetached == Init /\ [][NextDetached]_vars

----------------------------------------------------------------------------
\* write_loading on its own: a driver creates the task over a connected display,
\* lets it tick, and cancels it once at a point of its choosing.

InitLoading ==
  /\ phase = "run"
  /\ exitKind = "none"
  /\ unhandled = FALSE
  /\ toCancel = {}
  /\ ready = <<"load">>
  /\ cur = "none"
  /\ pc = [t \in Tasks |-> IF t = "load" THEN "start" ELSE "none"]
  /\ res = [t \in Tasks |-> "ok"]
  /\ exc = [t \in Tasks |-> "none"]
  /\ outcome = [t \in Tasks |-> "none"]
  /\ io = {}
  /\ inFlight = {}
  /\ issued = {}
  /\ sigHandler = "none"
  /\ stopEvent = FALSE
  /\ sigCount = 0
  /\ sigAt = "none"
  /\ handlerRuns = 0
  /\ stopSets = 0
  /\ link = "held"
  /\ frame = "attached"
  /\ startFail = "none"
  /\ taps = 0
  /\ faults = 0
  /\ devSleep = 0
  /\ dots = 0
  /\ loadWipes = 0
  /\ loadCancelPc = "none"
  /\ loadRenders = 0
  /\ sleepStarted = 0
  /\ cancelPc = "none"
  /\ failedStep = "none"
  /\ steps = [capture |-> 0, captured |-> 0, preprocessed |-> 0, transcribed |-> 0]
  /\ boot = <<>>
  /\ screen = "blank"
  /\ sleepTrail = <<>>
  /\ sleepFailAt = "none"
  /\ sleepFlag = "none"
  /\ cmdFlag = "none"
  /\ detCalls = 0
  /\ detLast = [op |-> "none", result |-> "none"]

----------------------------------------------------------------------------
\* Interface.sleep on its own: a driver task awaits sleep(deep_sleep) with
\* either value of the flag, over a link that is held or already released, and
\* may be cancelled once at a point of its choosing.

InitSleep ==
  /\ phase = "run"
  /\ exitKind = "none"
  /\ unhandled = FALSE
  /\ toCancel = {}
  /\ ready = <<>>
  /\ cur = "none"
  /\ pc = [t \in Tasks |-> IF t = "run" THEN "sl_write" ELSE "none"]
  /\ res = [t \in Tasks |-> "ok"]
  /\ exc = [t \in Tasks |-> "none"]
  /\ outcome = [t \in Tasks |-> "none"]
  /\ io = {"run"}
  /\ inFlight = {"run"}
  /\ link \in {"held", "released"}
  /\ issued = IF link = "held" THEN {"display"} ELSE {"display", "late_display"}
  /\ sigHandler = "none"
  /\ stopEvent = FALSE
  /\ sigCount = 0
  /\ sigAt = "none"
  /\ handlerRuns = 0
  /\ stopSets = 0
  /\ frame = "attached"
  /\ startFail = "none"
  /\ taps = 0
  /\ faults = 0
  /\ devSleep = 0
  /\ dots = 0
  /\ loadWipes = 0
  /\ loadCancelPc = "none"
  /\ loadRenders = 0
  /\ sleepStarted = 1
  /\ cancelPc = "none"
  /\ failedStep = "none"
  /\ steps = [capture |-> 0, captured |-> 0, preprocessed |-> 0, transcribed |-> 0]
  /\ boot = <<>>
  /\ screen = "blank"
  /\ sleepTrail = <<>>
  /\ sleepFailAt = "none"
  /\ sleepFlag \in {"deep", "light"}
  /\ cmdFlag = "none"
  /\ detCalls = 0
  /\ detLast = [op |-> "none", result |-> "none"]

\* The driver's cancel() of the task that awaits sleep.
CancelSleep ==
  /\ cur = "none"
  /\ "run" \notin toCancel
  /\ pc["run"] # "done"
  /\ toCancel' = {"run"}
  /\ res' = CancelledRes({"run"}, ready)
  /\ ready' = CancelledReady({"run"}, ready)
  /\ io' = io \ {"run"}
  /\ inFlight' = inFlight \ {"run"}
  /\ UNCHANGED <<histVars, phase, exitKind, unhandled, sigVars, linkVars, loadVars,
                 runHist, cur, pc, outcome, issued, frame>>

NextSleep ==
  \/ sleep
  \/ CancelSleep
  \/ \E r \in {"ok", "err"} : IoDone("run", r)

SpecSleep == InitSleep /\ [][NextSleep]_vars

\* The driver's loading_task.cancel().
CancelLoading ==
  /\ cur = "none"
  /\ "load" \notin toCancel
  /\ pc["load"] # "done"
  /\ toCancel' = {"load"}
  /\ res' = CancelledRes({"load"}, ready)
  /\ ready' = CancelledReady({"load"}, ready)
  /\ io' = io \ {"load"}
  /\ inFlight' = inFlight \ {"load"}
  /\ UNCHANGED <<histVars, phase, exitKind, unhandled, sigVars, linkVars, loadVars, runHist,
                 cur, pc, outcome, issued, frame>>

NextLoading ==
  \/ write_loading
  \/ CancelLoading
  \/ \E r \in {"ok", "err"} : IoDone("load", r)

SpecLoading == InitLoading /\ [][NextLoading]_vars

----------------------------------------------------------------------------
\* Claims.

\* C1: a SIGINT delivered while run() is suspended in wait_for_tap leads to
\* exactly one deep-sleep sequence that runs to completion (the sleep command
\* reaches the device) before the process exits, with no unhandled error.
\* Stated for executions with a single SIGINT and no injected hardware fault.
C1_InterruptRunsDeepSleep ==
  (phase = "exited" /\ sigAt = "tap" /\ sigCount = 1 /\ faults = 0)
    => (sleepStarted = 1 /\ devSleep = 1 /\ ~unhandled /\ outcome["run"] # "err")

\* C2: however run() exits, the deep-sleep sequence has been started exactly
\* once and its sleep command has been issued when the process terminates.
\* Stated for executions with at most one SIGINT and no injected hardware fault.
C2_DeepSleepExactlyOnce ==
  (phase = "exited" /\ "display" \in issued /\ sigCount <= 1 /\ faults = 0)
    => (sleepStarted = 1 /\ "sleepcmd" \in issued)

C4_CleanupRenderBeforeReturn ==
  (pc["load"] = "done" /\ pc["run"] \notin AnalyzePcs) => loadWipes = 1

\* C5: a write_loading cancelled while suspended on its render or on its
\* per-tick delay issues exactly one cleanup render and then finishes; the
\* cancellation does not leave the task (it finishes normally unless the
\* cleanup render itself fails).
C5_CancelledLoadingWipesOnce ==
  loadCancelPc \in {"ld_show", "ld_delay"} =>
    /\ loadWipes = 1
    /\ pc["load"] \in {"ld_wipe", "done"}
    /\ pc["load"] = "done" =>
         (outcome["load"] # "cancel" /\ (faults = 0 => outcome["load"] = "ok"))

C5_Witness ==
  loadCancelPc = "ld_delay" /\ pc["load"] = "done" /\ outcome["load"] = "ok" /\ loadWipes = 1

\* C6: a loading indicator task is alive only while run() is inside the analyze
\* call that created it; it has no render in flight at any other time.
C6_LoadingNeverOutlivesAnalyze ==
  (pc["load"] \notin {"none", "done"} \/ "load" \in inFlight)
    => pc["run"] \in {"an_pre", "an_tr", "an_fin", "an_await"}

C6_Witness ==
  pc["load"] = "done" /\ pc["run"] = "record" /\ taps = 2

\* C7: at most one display render is in flight at any time.
C7_OneRenderInFlight ==
  Cardinality(inFlight) <= 1

C7_Witness ==
  "run" \in inFlight /\ pc["load"] = "done" /\ pc["main"] = "aexit"

\* C8: a SIGINT delivered while the shutdown started by the first one is in
\* progress (handle_interrupt has run, run() is in its deep-sleep sequence)
\* changes nothing: the handler does not run again, no second deep-sleep
\* sequence starts, and the tasks and the runner go on undisturbed.
C8_SecondInterruptIgnored ==
  [][(handlerRuns >= 1 /\ cancelPc # "none" /\ faults = 0 /\ pc["run"] \in SleepPcs
        /\ sigCount' = sigCount + 1) =>
       /\ handlerRuns' = handlerRuns
       /\ sleepStarted' = sleepStarted
       /\ phase' = phase
       /\ pc' = pc
       /\ res' = res
       /\ io' = io]_vars

C10_StartupFailureAborts ==
  startFail # "none" =>
    /\ pc["run"] = "none" /\ pc["stop"] = "none" /\ pc["load"] = "none"
    /\ issued \subseteq {"link"}
    /\ frame = "None"
    /\ taps = 0

C10_Witness ==
  startFail = "connect" /\ phase = "exited" /\ outcome["main"] = "err"

\* C11: a display or link operation that fails during the deep-sleep sequence
\* does not keep the process alive: once an await of Interface.sleep has
\* raised, the process terminates.
C11_SleepFailureStillExits ==
  (sleepFailAt # "none") ~> (phase = "exited")

C11_Witness ==
  sleepFailAt = "sl_show" /\ phase = "exited" /\ outcome["run"] = "err"

\* C12: in every cycle the steps happen in the order tap, capture,
\* preprocessing, transcription.  A capture is started only for a detected tap,
\* preprocessing only after that cycle's capture has returned, transcription
\* only after that cycle's preprocessing has returned, and run() waits for the
\* next tap only when every cycle begun so far has been transcribed.
C12_CycleOrder ==
  /\ steps.capture <= taps
  /\ steps.captured <= steps.capture
  /\ steps.preprocessed <= steps.captured
  /\ steps.transcribed <= steps.preprocessed
  /\ taps <= steps.transcribed + 1
  /\ pc["run"] = "record" => (steps.capture = taps /\ steps.captured = taps - 1)
  /\ pc["run"] = "an_pre" => (steps.captured = taps /\ steps.preprocessed = taps - 1)
  /\ pc["run"] = "an_tr" =>
       (steps.captured = taps /\ steps.preprocessed = taps /\ steps.transcribed = taps - 1)
  /\ (pc["run"] = "tap" /\ "run" \in io) => steps.transcribed = taps

C12_Witness ==
  pc["run"] = "tap" /\ "run" \in io /\ taps = 2 /\ steps.transcribed = 2

\* C13: while frame is None every session method called ends at once as a
\* no-op or an AttributeError, no hardware operation of the session is issued
\* or pending and the session's attributes stay as they were; run() is started
\* only after set_frame has attached the Frame of a connection that was
\* established.
C13_DetachedFailsFast ==
  /\ frame = "None" =>
       /\ detLast.result \in {"none", "noop", "raise"}
       /\ issued \subseteq {"link"}
       /\ io \subseteq {"main"}
       /\ pc["run"] = "none" /\ pc["load"] = "none"
  /\ pc["run"] # "none" => (frame = "attached" /\ link # "none" /\ startFail = "none")
  /\ detLast.result # "issued"

C13_Witness ==
  /\ detCalls = 2 /\ detLast = [op |-> "listen", result |-> "raise"]
  /\ frame = "None" /\ issued = {"link"} /\ pc["main"] = "connect"

\* C14: when whisper.transcribe is invoked, the loading indicator created by
\* that analyze call has rendered "Loading" at least once.
C14_LoadingRendersBeforeTranscribe ==
  pc["run"] = "an_tr" => loadRenders >= 1

\* C15: whenever run() is outside listen, whether listen returned or raised,
\* the display no longer shows the "Listening..." prompt.
C15_ListenAlwaysWipes ==
  (link = "held" /\ pc["run"] \notin ListenPcs) => screen # "listening"

\* C16: stop_event never goes from set to unset, it goes from unset to set at
\* most once, and only a run of handle_interrupt changes it.
C16_StopEventSetOnce ==
  [][/\ stopEvent => stopEvent'
     /\ stopSets' <= 1
     /\ (stopEvent' # stopEvent) =>
          (Len(ready) > 0 /\ Head(ready) = "sig" /\ handlerRuns' = handlerRuns + 1)]_vars

C16_Witness ==
  stopEvent /\ handlerRuns = 2 /\ stopSets = 1 /\ phase = "exited"

\* The awaits of run() before its loop: the splash is drawn (title, rectangle,
\* subtitle) and committed, the dwell elapses, the display is wiped.
SplashPhase == <<"sp_title", "sp_rect", "sp_sub", "sp_show", "sp_dwell", "sp_wipe">>

\* C17: run() completes the splash phase in order (render, commit, dwell,
\* wipe), and no tap wait, capture, preprocessing or transcription happens
\* before the whole phase has completed.
C17_SplashBeforeFirstTap ==
  /\ Len(boot) <= Len(SplashPhase)
  /\ boot = SubSeq(SplashPhase, 1, Len(boot))
  /\ ( \/ pc["run"] \in {"tap"} \cup CyclePcs
       \/ issued \cap {"tap", "record"} # {}
       \/ taps > 0
       \/ steps.capture > 0 \/ steps.preprocessed > 0 \/ steps.transcribed > 0
       \/ pc["load"] # "none" ) => boot = SplashPhase

C17_Witness ==
  pc["run"] = "tap" /\ "run" \in io /\ taps = 0 /\ boot = SplashPhase /\ screen = "blank"

\* C18: sleep(deep_sleep) issues frame.sleep only after its message has been
\* written and committed and the settle delay has elapsed, in that order, with
\* the deep_sleep value it was called with; over a held link the message on the
\* display is then the one of that value; and when the write or the commit
\* raises, or the task is cancelled before the command, no command is issued.
C18_SleepCommandLast ==
  /\ "sleepcmd" \in issued <=> cmdFlag # "none"
  /\ cmdFlag # "none" =>
       /\ cmdFlag = sleepFlag
       /\ Len(sleepTrail) >= 3
       /\ SubSeq(sleepTrail, 1, 3) = <<"sl_write", "sl_show", "sl_settle">>
       /\ link = "held" =>
            screen = (IF sleepFlag = "deep" THEN "sleep_deep" ELSE "sleep_light")
  /\ sleepFailAt \in {"sl_write", "sl_show"} =>
       (cmdFlag = "none" /\ pc["run"] = "done" /\ devSleep = 0)
  /\ devSleep > 0 => cmdFlag # "none"

C18_Witness ==
  /\ sleepFlag = "light" /\ cmdFlag = "light" /\ devSleep = 1 /\ pc["run"] = "done"
  /\ screen = "sleep_light"

\* C19: no render, tap wait, capture or sleep command is issued once
\* Frame.__aexit__ has released the connection.  Stated for executions with at
\* most one SIGINT and no injected hardware fault.
C19_NoOperationAfterRelease ==
  (sigCount <= 1 /\ faults = 0) =>
    issued \cap {"late_display", "late_tap", "late_record", "late_sleepcmd"} = {}

\* C20: while run() is between the creation of the loading task and the return
\* of whisper.transcribe, no other activity takes a step (the loading task,
\* the stop task, main() and handle_interrupt stay where they are), and a
\* SIGINT delivered in that interval leaves the call in progress undisturbed.
C20_TranscriptionNotInterrupted ==
  [][pc["run"] \in {"an_pre", "an_tr"} =>
       /\ pc'["load"] = pc["load"]
       /\ pc'["stop"] = pc["stop"]
       /\ pc'["main"] = pc["main"]
       /\ stopEvent' = stopEvent
       /\ handlerRuns' = handlerRuns
       /\ (sigCount' # sigCount) => (pc'["run"] = pc["run"] /\ exc' = exc)]_vars

====
